---- MODULE Spec2Model ----
(***************************************************************************)
(* Model of pmotool/connectors/simple_watcher.py: the polling loop of      *)
(* watch_and_post, the filesystem it watches (Watch Root, Archive          *)
(* Subdirectory), the webhook it posts to, the wall clock, and an external *)
(* producer/operator acting on the filesystem between the loop's steps.    *)
(***************************************************************************)
EXTENDS Integers, Sequences, FiniteSets, TLC

(* ---------------- bounds of the model ---------------- *)
MaxEnv == 2        \* external operations (on the filesystem, restarts) per behaviour
MaxTime == 2       \* last clock tick explored (ticks of 1/TicksPerSecond s)
MaxLen == 2        \* longest file content the producer writes

(* ---------------- run parameters ---------------- *)
TicksPerSecond == 2                 \* clock resolution of the model
poll_interval == 1                  \* poll_interval argument (--interval), in seconds
Stage == TRUE                       \* stage argument
Directory == <<"w">>                \* os.path.abspath(directory)
ProcessedDirName == <<"p","r","o","c","e","s","s","e","d">>

(* ---------------- names, characters ---------------- *)
Names == { <<"a",".","T","X","T">>, <<"a",".","t","x","t">> }
\* the loop looks at the size of a file and hands its text on unread: texts
\* of different length are all it can tell apart
Alphabet == {"x"}
Absent == [absent |-> TRUE]
None == [none |-> TRUE]

Ord(c) ==
    CASE c = "." -> 46 [] c = "/" -> 47
      [] c = "T" -> 84 [] c = "X" -> 88
      [] c = "a" -> 97 [] c = "b" -> 98 [] c = "c" -> 99 [] c = "d" -> 100
      [] c = "e" -> 101 [] c = "m" -> 109 [] c = "o" -> 111 [] c = "p" -> 112
      [] c = "r" -> 114 [] c = "s" -> 115 [] c = "t" -> 116 [] c = "w" -> 119
      [] c = "x" -> 120 [] c = "y" -> 121

\* str.lower() on one character
LowerChar(c) == IF Ord(c) >= 65 /\ Ord(c) <= 90
                THEN (CASE c = "T" -> "t" [] c = "X" -> "x")
                ELSE c

Lower(s) == [k \in 1..Len(s) |-> LowerChar(s[k])]

EndsWith(s, suf) ==
    /\ Len(s) >= Len(suf)
    /\ SubSeq(s, Len(s) - Len(suf) + 1, Len(s)) = suf

DotTxt == <<".","t","x","t">>

\* f.lower().endswith('.txt')
IsTxt_Mut(fn) == EndsWith(fn, DotTxt)
IsTxt(fn) == EndsWith(Lower(fn), DotTxt)

\* str comparison of Python: lexicographic by code point
StrLess(s, t) ==
    \E k \in 1..(Len(s) + 1) :
        /\ k <= Len(t) + 1
        /\ \A j \in 1..(k - 1) : s[j] = t[j]
        /\ IF k = Len(s) + 1 THEN k <= Len(t)
           ELSE k <= Len(t) /\ Ord(s[k]) < Ord(t[k])

\* the listing in descending order
RECURSIVE Sorted_Mut(_)
Sorted_Mut(S) ==
    IF S = {} THEN << >>
    ELSE LET m == CHOOSE x \in S : \A y \in S \ {x} : StrLess(y, x)
         IN  <<m>> \o Sorted_Mut(S \ {m})

\* sorted(files)
RECURSIVE Sorted(_)
Sorted(S) ==
    IF S = {} THEN << >>
    ELSE LET m == CHOOSE x \in S : \A y \in S \ {x} : StrLess(x, y)
         IN  <<m>> \o Sorted(S \ {m})

\* os.path.join(directory, fn)
Join(dir, fn) == dir \o <<"/">> \o fn

\* os.path.splitext(fn)[0]
SplitextRoot(fn) ==
    LET dots == { k \in 2..Len(fn) : fn[k] = "." }
    IN  IF dots = {} THEN fn
        ELSE LET last == CHOOSE k \in dots : \A j \in dots : j <= k
             IN  SubSeq(fn, 1, last - 1)

Digits == <<"0","1","2","3","4","5","6","7","8","9">>

\* datetime.utcnow().strftime('%Y%m%dT%H%M%SZ'): second resolution
Strftime(t) ==
    LET sec == t \div TicksPerSecond
    IN  <<"T", Digits[((sec \div 10) % 10) + 1], Digits[(sec % 10) + 1], "Z">>

\* f"{meeting_id}.{ts}.txt"
DestName(meeting_id, ts) == meeting_id \o <<".">> \o ts \o DotTxt

\* 200 <= resp.status_code < 300
Is2xx_Mut(code) == 200 <= code /\ code <= 300
Is2xx(code) == 200 <= code /\ code < 300

\* what requests.post does: it returns a response, or it raises
Statuses == {199, 200, 299, 300}
Resp(code) == [raised |-> FALSE, status |-> code]
Raised == [raised |-> TRUE, status |-> 0]
Outcomes == { Resp(code) : code \in Statuses } \cup {Raised}

\* lines 90-91: no exception, and 200 <= resp.status_code < 300
Delivered_Mut(o) == ~ o.raised
Delivered(o) == ~ o.raised /\ Is2xx(o.status)

Payload(fn, text) ==
    [meeting_id |-> SplitextRoot(fn), title |-> SplitextRoot(fn),
     transcript |-> text, attendees |-> << >>, stage |-> Stage]

Contents == UNION { [1..n -> Alphabet] : n \in 0..MaxLen }

\* os.path.commonpath([full, processed_dir]) == processed_dir
InProcessed(full, processed_dir) ==
    /\ Len(full) >= Len(processed_dir)
    /\ SubSeq(full, 1, Len(processed_dir)) = processed_dir
    /\ (Len(full) = Len(processed_dir) \/ full[Len(processed_dir) + 1] = "/")

ProcessedDir == Join(Directory, ProcessedDirName)
Full(fn) == Join(Directory, fn)

VARIABLES
    pc,          \* position of watch_and_post
    seen,        \* seen: set of full paths
    files,       \* sorted(files) of the current cycle
    i,           \* index of the for loop in files
    size1,       \* first size probe of the current candidate
    transcript,  \* text read from the current candidate
    rootState,   \* Watch Root: "ok", "missing" or "denied" (no permission)
    root,        \* name -> Absent or [data, readable], entries of the Watch Root
    archDir,     \* the Archive Subdirectory exists
    archive,     \* set of [name, data], entries of the Archive Subdirectory
    now,         \* wall clock, in ticks
    envLeft,     \* external operations (and restarts) still to explore
    log,         \* history: operations of the current for loop, in order
    acked,       \* history: paths whose POST was answered 2xx in this run
    unreadable,  \* history: paths whose read failed in this run
    lastFail,    \* history: name -> payload of its failed POST, file untouched since
    pending,     \* history: name -> payload due for retry in the current cycle
    renamed,     \* history: successful renames since the archive was last emptied
    tally,       \* history: name -> listings and POSTs of the file since it was
                 \* last touched from outside, in this run
    prevSeen     \* history: during the first poll cycle of a run, the paths the
                 \* run before had in seen whose file, readable, is still there

prog == <<pc, seen, files, i, size1, transcript>>
env  == <<rootState, root, archDir, archive, now, envLeft>>
hist == <<log, acked, unreadable, lastFail, pending, renamed, tally, prevSeen>>
vars == <<prog, env, hist>>

NoMemo == [fn \in Names |-> None]
NoCount == [age |-> 0, posts |-> 0]
NoTally == [fn \in Names |-> NoCount]
NoRetry == [fn \in Names |-> [due |-> None, sent |-> None]]
File(data, readable) == [data |-> data, readable |-> readable]
Ev(op, fn, arg, res) == [op |-> op, fn |-> fn, arg |-> arg, res |-> res]

Running == pc \notin {"stopped", "crashed"}

Init ==
    /\ pc = "list"
    /\ seen = {}
    /\ files = << >>
    /\ i = 1
    /\ size1 = 0
    /\ transcript = << >>
    /\ rootState = "ok"
    /\ root \in [Names -> {Absent, File(<<"x">>, TRUE)}]
    /\ archDir = TRUE
    /\ archive = {}
    /\ now = 0
    /\ envLeft = MaxEnv
    /\ log = << >>
    /\ acked = {}
    /\ unreadable = {}
    /\ lastFail = NoMemo
    /\ pending = NoRetry
    /\ renamed = 0
    /\ tally = NoTally
    /\ prevSeen = {}

(* ---------------- the filesystem as the loop sees it ---------------- *)

\* os.listdir(directory)
Listdir ==
    { fn \in Names : root[fn] # Absent }
        \cup (IF archDir THEN {ProcessedDirName} ELSE {})

\* os.path.getsize(full) succeeds
CanStat(fn) == rootState = "ok" /\ root[fn] # Absent

\* open(full, 'r', encoding='utf-8') and fh.read() succeed
CanRead(fn) == CanStat(fn) /\ root[fn].readable

\* the candidate of the current iteration of the for loop
Cur == files[i]

(* ---------------- watch_and_post ---------------- *)

\* counting listings and POSTs, as far as the clock of the model runs
Count(n) == IF n <= MaxTime THEN n + 1 ELSE n

\* the listing without the handler of lines 45-47
List_Mut ==
    /\ pc = "list"
    /\ \/ /\ rootState = "ok"
          /\ files' = Sorted({ f \in Listdir : IsTxt(f) })
          /\ pc' = "loop"
          /\ UNCHANGED rootState
       \/ /\ rootState # "ok"             \* no handler for FileNotFoundError
          /\ pc' = "crashed"
          /\ files' = << >>
          /\ UNCHANGED rootState
    /\ i' = 1
    /\ log' = << >>
    /\ pending' = [fn \in Names |-> [due |-> lastFail[fn], sent |-> None]]
    /\ tally' = [fn \in Names |->
                    IF CanStat(fn)
                    THEN [tally[fn] EXCEPT !.age = Count(@)]
                    ELSE NoCount]
    /\ UNCHANGED <<seen, size1, transcript, root, archDir, archive, now, envLeft,
                   acked, unreadable, lastFail, renamed, prevSeen>>

\* lines 42-47: files = [f for f in os.listdir(directory) if ...]
List ==
    /\ pc = "list"
    /\ \/ /\ rootState = "ok"
          /\ files' = Sorted({ f \in Listdir : IsTxt(f) })
          /\ pc' = "loop"
          /\ UNCHANGED rootState
       \/ /\ rootState = "missing"        \* FileNotFoundError: ensure_dir
          /\ files' = << >>
          /\ pc' = "loop"
          /\ rootState' = "ok"
       \/ /\ rootState = "denied"         \* PermissionError is not caught
          /\ pc' = "crashed"
          /\ files' = << >>
          /\ UNCHANGED rootState
    /\ i' = 1
    /\ log' = << >>
    /\ pending' = [fn \in Names |-> [due |-> lastFail[fn], sent |-> None]]
    /\ tally' = [fn \in Names |->
                    IF CanStat(fn)
                    THEN [tally[fn] EXCEPT !.age = Count(@)]
                    ELSE NoCount]
    /\ UNCHANGED <<seen, size1, transcript, root, archDir, archive, now, envLeft,
                   acked, unreadable, lastFail, renamed, prevSeen>>

\* line 49: the for loop is exhausted
ForDone ==
    /\ pc = "loop"
    /\ i > Len(files)
    /\ pc' = "sleep"
    /\ log' = << >>
    /\ pending' = NoRetry
    /\ prevSeen' = {}
    /\ UNCHANGED <<seen, files, i, size1, transcript, env,
                   acked, unreadable, lastFail, renamed, tally>>

\* line 58: full in seen
AlreadySeen_Mut(full) == FALSE
AlreadySeen(full) == full \in seen

\* lines 52-59: skip what lies in the processed dir or is in seen
Skip ==
    /\ pc = "loop"
    /\ i <= Len(files)
    /\ InProcessed(Full(Cur), ProcessedDir) \/ AlreadySeen(Full(Cur))
    /\ i' = i + 1
    /\ UNCHANGED <<pc, seen, files, size1, transcript, env, hist>>

\* line 62: size1 = os.path.getsize(full)
Probe1 ==
    /\ pc = "loop"
    /\ i <= Len(files)
    /\ ~ (InProcessed(Full(Cur), ProcessedDir) \/ AlreadySeen(Full(Cur)))
    /\ IF CanStat(Cur)
       THEN /\ size1' = Len(root[Cur].data)
            /\ pc' = "probe2"
            /\ log' = Append(log, Ev("getsize", Cur, 1, Len(root[Cur].data)))
            /\ UNCHANGED i
       ELSE /\ i' = i + 1                 \* except Exception: continue
            /\ log' = Append(log, Ev("getsize", Cur, 1, -1))
            /\ UNCHANGED <<pc, size1>>
    /\ UNCHANGED <<seen, files, transcript, env,
                   acked, unreadable, lastFail, pending, renamed, tally, prevSeen>>

\* line 65: size1 != size2
Unstable_Mut(s1, s2) == FALSE
Unstable(s1, s2) == s1 # s2

\* lines 63-69: time.sleep(0.2); size2 = os.path.getsize(full)
Probe2 ==
    /\ pc = "probe2"
    /\ IF CanStat(Cur)
       THEN /\ log' = Append(log, Ev("getsize", Cur, 2, Len(root[Cur].data)))
            /\ IF Unstable(size1, Len(root[Cur].data))
               THEN i' = i + 1 /\ pc' = "loop"
               ELSE pc' = "read" /\ UNCHANGED i
       ELSE /\ log' = Append(log, Ev("getsize", Cur, 2, -1))
            /\ i' = i + 1
            /\ pc' = "loop"
    /\ UNCHANGED <<seen, files, size1, transcript, env,
                   acked, unreadable, lastFail, pending, renamed, tally, prevSeen>>

\* lines 77, 110: seen.add(full)
SeenAdd_Mut(s, full) == s
SeenAdd(s, full) == s \cup {full}

\* lines 72-78: transcript = fh.read(), or seen.add(full) when that fails
Read ==
    /\ pc = "read"
    /\ IF CanRead(Cur)
       THEN /\ transcript' = root[Cur].data
            /\ pc' = "post"
            /\ log' = Append(log, Ev("read", Cur, root[Cur].data, TRUE))
            /\ UNCHANGED <<seen, i, unreadable>>
       ELSE /\ seen' = SeenAdd(seen, Full(Cur))
            /\ unreadable' = unreadable \cup {Full(Cur)}
            /\ i' = i + 1
            /\ pc' = "loop"
            /\ log' = Append(log, Ev("read", Cur, << >>, FALSE))
            /\ UNCHANGED transcript
    /\ UNCHANGED <<files, size1, env, acked, lastFail, pending, renamed, tally,
                   prevSeen>>

\* history: the endpoint answered with a status in [200,300)
Answered2xx(o) == ~ o.raised /\ o.status \in 200..299

\* lines 80-108: build the payload, requests.post, interpret the response
Post ==
    /\ pc = "post"
    /\ \E o \in Outcomes :
        /\ log' = Append(log, Ev("post", Cur, Payload(Cur, transcript), o))
        /\ IF Delivered(o)
           THEN /\ pc' = "rename"
                /\ UNCHANGED i
           ELSE /\ i' = i + 1             \* continue: not marked as seen
                /\ pc' = "loop"
        /\ IF Answered2xx(o)
           THEN /\ acked' = acked \cup {Full(Cur)}
                /\ lastFail' = [lastFail EXCEPT ![Cur] = None]
           ELSE /\ lastFail' = [lastFail EXCEPT ![Cur] =
                       IF CanRead(Cur) /\ root[Cur].data = transcript
                       THEN Payload(Cur, transcript) ELSE None]
                /\ UNCHANGED acked
    /\ pending' = [pending EXCEPT ![Cur].sent = Payload(Cur, transcript)]
    /\ tally' = [tally EXCEPT ![Cur].posts =
                    IF tally[Cur].age > 0 THEN Count(@) ELSE @]
    /\ UNCHANGED <<seen, files, size1, transcript, env, unreadable, renamed,
                   prevSeen>>

\* lines 94-95: dest = os.path.join(processed_dir, f"{meeting_id}.{ts}.txt")
Dest(fn, t) == DestName(SplitextRoot(fn), Strftime(t))

\* lines 96-100: os.rename(full, dest), its failure logged and swallowed
Rename ==
    /\ pc = "rename"
    /\ pc' = "mark"
    /\ LET dest == Dest(Cur, now)
           clash == \E e \in archive : e.name = dest
           what == [dest |-> dest, src |-> CanStat(Cur), dir |-> archDir,
                    clash |-> clash,
                    data |-> IF CanStat(Cur) THEN root[Cur].data ELSE << >>]
       IN  \/ /\ CanStat(Cur) /\ archDir  \* POSIX rename replaces dest
              /\ root' = [root EXCEPT ![Cur] = Absent]
              /\ archive' = { e \in archive : e.name # dest }
                                \cup {[name |-> dest, data |-> root[Cur].data]}
              /\ renamed' = renamed + 1
              /\ log' = Append(log, Ev("rename", Cur, what, TRUE))
           \/ /\ ~ (CanStat(Cur) /\ archDir) \/ clash   \* OSError
              /\ log' = Append(log, Ev("rename", Cur, what, FALSE))
              /\ UNCHANGED <<root, archive, renamed>>
    /\ UNCHANGED <<seen, files, i, size1, transcript, rootState, archDir, now,
                   envLeft, acked, unreadable, lastFail, pending, tally, prevSeen>>

\* line 110 skipped when the rename failed (a continue in the handler)
Mark_Mut ==
    /\ pc = "mark"
    /\ seen' = IF log[Len(log)].res THEN seen \cup {Full(Cur)} ELSE seen
    /\ i' = i + 1
    /\ pc' = "loop"
    /\ UNCHANGED <<files, size1, transcript, env, hist>>

\* line 110: seen.add(full)
Mark ==
    /\ pc = "mark"
    /\ seen' = SeenAdd(seen, Full(Cur))
    /\ i' = i + 1
    /\ pc' = "loop"
    /\ UNCHANGED <<files, size1, transcript, env, hist>>

\* line 112: time.sleep(poll_interval)
Sleep ==
    /\ pc = "sleep"
    /\ now + poll_interval * TicksPerSecond <= MaxTime
    /\ now' = now + poll_interval * TicksPerSecond
    /\ pc' = "list"
    /\ UNCHANGED <<seen, files, i, size1, transcript, rootState, root, archDir,
                   archive, envLeft, hist>>

\* the handler of KeyboardInterrupt around the sleep of line 112 only
Interrupt_Mut ==
    /\ Running
    /\ pc' = IF pc = "sleep" THEN "stopped" ELSE "crashed"
    /\ files' = << >>
    /\ i' = 1
    /\ size1' = 0
    /\ transcript' = << >>
    /\ log' = << >>
    /\ lastFail' = NoMemo
    /\ pending' = NoRetry
    /\ tally' = NoTally
    /\ prevSeen' = {}
    /\ UNCHANGED <<seen, env, acked, unreadable, renamed>>

\* lines 113-114: except KeyboardInterrupt; watch_and_post returns, and the
\* loop's locals (and the history of the interrupted cycle) are gone
Interrupt ==
    /\ Running
    /\ pc' = "stopped"
    /\ files' = << >>
    /\ i' = 1
    /\ size1' = 0
    /\ transcript' = << >>
    /\ log' = << >>
    /\ lastFail' = NoMemo
    /\ pending' = NoRetry
    /\ tally' = NoTally
    /\ prevSeen' = {}
    /\ UNCHANGED <<seen, env, acked, unreadable, renamed>>

\* a restart that finds the seen set of the run before
Restart_Mut ==
    /\ ~ Running
    /\ envLeft > 0                       \* started by an operator
    /\ rootState # "denied"
    /\ rootState' = "ok"
    /\ archDir' = TRUE
    /\ pc' = "list"
    /\ seen' = seen
    /\ files' = << >>
    /\ i' = 1
    /\ size1' = 0
    /\ transcript' = << >>
    /\ log' = << >>
    /\ acked' = {}
    /\ unreadable' = {}
    /\ lastFail' = NoMemo
    /\ pending' = NoRetry
    /\ tally' = NoTally
    /\ prevSeen' = { p \in seen : \E fn \in Names :
                       p = Full(fn) /\ root[fn] # Absent /\ root[fn].readable }
    /\ envLeft' = envLeft - 1
    /\ UNCHANGED <<root, archive, now, renamed>>

\* lines 32-38: watch_and_post is started again after it ended
Restart ==
    /\ ~ Running
    /\ envLeft > 0                       \* started by an operator
    /\ rootState # "denied"
    /\ rootState' = "ok"
    /\ archDir' = TRUE
    /\ pc' = "list"
    /\ seen' = {}
    /\ files' = << >>
    /\ i' = 1
    /\ size1' = 0
    /\ transcript' = << >>
    /\ log' = << >>
    /\ acked' = {}
    /\ unreadable' = {}
    /\ lastFail' = NoMemo
    /\ pending' = NoRetry
    /\ tally' = NoTally
    /\ prevSeen' = { p \in seen : \E fn \in Names :
                       p = Full(fn) /\ root[fn] # Absent /\ root[fn].readable }
    /\ envLeft' = envLeft - 1
    /\ UNCHANGED <<root, archive, now, renamed>>

(* ---------------- the environment ---------------- *)

Touch(memo, fn) == [memo EXCEPT ![fn] = None]
Undue(memo, fn) == [memo EXCEPT ![fn] = [due |-> None, sent |-> None]]

\* what a producer drops: an empty file it will write to, or a file that
\* cannot be read as UTF-8 text
Dropped == { File(<< >>, TRUE), File(<<"x">>, FALSE) }

\* the steps of the loop that look at the filesystem come next: an external
\* operation before any other step is the same operation after it
Watching == pc \in {"list", "loop", "probe2", "read", "rename"}

\* a producer drops a new file into the Watch Root
Drop ==
    /\ envLeft > 0 /\ rootState = "ok" /\ Watching
    /\ \E fn \in Names, f \in Dropped :
        /\ root[fn] = Absent
        /\ root' = [root EXCEPT ![fn] = f]
        /\ lastFail' = Touch(lastFail, fn)
        /\ pending' = Undue(pending, fn)
        /\ tally' = [tally EXCEPT ![fn] = NoCount]
    /\ envLeft' = envLeft - 1
    /\ UNCHANGED <<prog, rootState, archDir, archive, now,
                   log, acked, unreadable, renamed, prevSeen>>

\* a producer appends to a file of the Watch Root
Write ==
    /\ envLeft > 0 /\ rootState = "ok" /\ Watching
    /\ \E fn \in Names, c \in Alphabet :
        /\ root[fn] # Absent
        /\ Len(root[fn].data) < MaxLen
        /\ root' = [root EXCEPT ![fn].data = Append(@, c)]
        /\ lastFail' = Touch(lastFail, fn)
        /\ pending' = Undue(pending, fn)
        /\ tally' = [tally EXCEPT ![fn] = NoCount]
    /\ envLeft' = envLeft - 1
    /\ UNCHANGED <<prog, rootState, archDir, archive, now,
                   log, acked, unreadable, renamed, prevSeen>>

\* an operator removes a file of the Watch Root
Remove ==
    /\ envLeft > 0 /\ rootState = "ok" /\ Watching
    /\ \E fn \in Names :
        /\ root[fn] # Absent
        /\ root' = [root EXCEPT ![fn] = Absent]
        /\ lastFail' = Touch(lastFail, fn)
        /\ pending' = Undue(pending, fn)
        /\ tally' = [tally EXCEPT ![fn] = NoCount]
    /\ envLeft' = envLeft - 1
    /\ UNCHANGED <<prog, rootState, archDir, archive, now,
                   log, acked, unreadable, renamed, prevSeen>>

\* an operator removes the Watch Root with everything in it
RemoveRoot ==
    /\ envLeft > 0 /\ rootState = "ok" /\ (Watching \/ ~ Running)
    /\ rootState' = "missing"
    /\ root' = [fn \in Names |-> Absent]
    /\ archDir' = FALSE
    /\ archive' = {}
    /\ renamed' = 0
    /\ lastFail' = NoMemo
    /\ pending' = NoRetry
    /\ tally' = NoTally
    /\ envLeft' = envLeft - 1
    /\ UNCHANGED <<prog, now, log, acked, unreadable, prevSeen>>

\* an operator takes away, or gives back, the permissions of the Watch Root
Chmod ==
    /\ envLeft > 0 /\ rootState # "missing" /\ (Watching \/ ~ Running)
    /\ rootState' = IF rootState = "ok" THEN "denied" ELSE "ok"
    /\ lastFail' = NoMemo
    /\ pending' = NoRetry
    /\ tally' = NoTally
    /\ envLeft' = envLeft - 1
    /\ UNCHANGED <<prog, root, archDir, archive, now,
                   log, acked, unreadable, renamed, prevSeen>>

\* time passes while the loop is blocked in time.sleep(0.2) or requests.post
Tick ==
    /\ pc \in {"probe2", "post"}
    /\ now < MaxTime
    /\ now' = now + 1
    /\ UNCHANGED <<prog, rootState, root, archDir, archive, envLeft, hist>>

Next ==
    \/ List \/ ForDone \/ Skip \/ Probe1 \/ Probe2 \/ Read \/ Post \/ Rename
    \/ Mark \/ Sleep \/ Interrupt \/ Restart
    \/ Drop \/ Write \/ Remove \/ RemoveRoot \/ Chmod \/ Tick

Spec == Init /\ [][Next]_vars

(* ---------------- the loop running for ever ---------------- *)

\* line 112 once the clock of the model has reached its bound: the sleep
\* ends, the time stamps stay what they are
SleepOn ==
    /\ pc = "sleep"
    /\ now + poll_interval * TicksPerSecond > MaxTime
    /\ pc' = "list"
    /\ UNCHANGED <<seen, files, i, size1, transcript, env, hist>>

\* lines 41-112: one step of the polling loop
Step ==
    \/ List \/ ForDone \/ Skip \/ Probe1 \/ Probe2 \/ Read \/ Post \/ Rename
    \/ Mark \/ Sleep \/ SleepOn

\* the watcher is never interrupted, and a step of the loop that can be taken
\* is taken in the end
LiveNext ==
    \/ Step
    \/ Drop \/ Write \/ Remove \/ RemoveRoot \/ Chmod \/ Tick

LiveSpec == Init /\ [][LiveNext]_vars /\ WF_vars(Step)

TypeOK ==
    /\ pc \in {"list", "loop", "probe2", "read", "post", "rename", "mark",
               "sleep", "stopped", "crashed"}
    /\ seen \subseteq { Full(fn) : fn \in Names }
    /\ rootState \in {"ok", "missing", "denied"}
    /\ now \in 0..MaxTime
    /\ envLeft \in 0..MaxEnv
    /\ \A fn \in Names : root[fn] = Absent \/ root[fn].data \in Contents

(* ---------------- reading the history ---------------- *)

Idx == 1..Len(log)

\* the for loop of the current poll cycle has handled its last candidate
CycleEnd == pc = "loop" /\ i > Len(files)

IsOp(k, op, fn) == log[k].op = op /\ log[k].fn = fn

\* the POST of entry k was answered with a status in [200,300)
Acked(k) ==
    /\ log[k].op = "post"
    /\ ~ log[k].res.raised
    /\ log[k].res.status \in 200..299

\* the POST of entry k raised, or was answered with a status outside [200,300)
PostFailed(k) == log[k].op = "post" /\ ~ Acked(k)

\* the size probe of entry k raised, or saw another size than the first probe
ProbeFailed(k) ==
    /\ log[k].op = "getsize"
    /\ \/ log[k].res = -1
       \/ /\ log[k].arg = 2
          /\ log[k - 1].res # log[k].res

ReadFailed(k) == log[k].op = "read" /\ ~ log[k].res

Renamed(k) == log[k].op = "rename" /\ log[k].res

\* the step appends an entry to the history of the for loop
Logs == Len(log') = Len(log) + 1
New == log'[Len(log')]

(* ---------------- C1 ---------------- *)

\* C1: every rename attempted in the for loop of a poll cycle follows a POST
\* for the same file, in the same cycle, answered with a status in [200,300);
\* a file whose probe, read or POST failed in the cycle has no rename attempt
\* in that cycle.
C1_ArchiveOnlyAfterAck ==
    \A k \in Idx :
        /\ log[k].op = "rename" =>
               \E j \in 1..(k - 1) : Acked(j) /\ log[j].fn = log[k].fn
        /\ (ProbeFailed(k) \/ ReadFailed(k) \/ PostFailed(k)) =>
               \A j \in Idx : ~ IsOp(j, "rename", log[k].fn)

\* a cycle in which one file was archived and another one's POST failed
C1_Witness ==
    /\ \E k \in Idx : Renamed(k)
    /\ \E k \in Idx : PostFailed(k) /\ ~ log[k].res.raised

(* ---------------- C2 ---------------- *)

\* C2: within a run the seen set never shrinks, and no size probe, read, POST
\* or rename is made for a path that is in the seen set.
C2_NoDoubleDelivery ==
    [][ /\ (Running /\ Running') => seen \subseteq seen'
        /\ Logs => Full(New.fn) \notin seen ]_vars

\* a file whose path is in the seen set is back in the Watch Root, with other
\* content, was listed in this cycle, and the loop went past it untouched
C2_Witness ==
    /\ pc = "loop" /\ i > 1 /\ i <= Len(files) + 1
    /\ Full(files[i - 1]) \in seen
    /\ CanRead(files[i - 1])
    /\ root[files[i - 1]].data # <<"x">>
    /\ \A k \in Idx : log[k].fn # files[i - 1]

(* ---------------- C3 ---------------- *)

\* C3: a file whose POST failed in the current for loop is not in the seen
\* set; while nobody touches it, it stays in the Watch Root as it was posted;
\* and by the end of the next cycle's for loop it has been POSTed again, with
\* the same payload.
C3_RetryByOmission ==
    /\ \A k \in Idx : PostFailed(k) => Full(log[k].fn) \notin seen
    /\ \A fn \in Names :
        lastFail[fn] # None =>
            /\ CanRead(fn)
            /\ Payload(fn, root[fn].data) = lastFail[fn]
    /\ \A fn \in Names :
        (pending[fn].due # None /\ (CycleEnd \/ pending[fn].sent # None)) =>
            pending[fn].sent = pending[fn].due

\* the retry of a failed POST was made in this cycle, and was acknowledged
C3_Witness ==
    /\ CycleEnd
    /\ \E fn \in Names :
        /\ pending[fn].due # None
        /\ pending[fn].sent = pending[fn].due
        /\ \E k \in Idx : Acked(k) /\ log[k].fn = fn

(* ---------------- C4 ---------------- *)

\* C4: after a size probe that raised or saw another size than the first
\* probe, nothing more is done with the file in that cycle (no read, no POST,
\* no rename) and its path is not in the seen set; every read follows two
\* probes of the same file, in the same cycle, that saw the same size.
C4_Stability ==
    \A k \in Idx :
        /\ ProbeFailed(k) =>
               /\ \A j \in (k + 1)..Len(log) : log[j].fn # log[k].fn
               /\ Full(log[k].fn) \notin seen
        /\ log[k].op = "read" =>
               /\ k > 2
               /\ IsOp(k - 2, "getsize", log[k].fn) /\ log[k - 2].arg = 1
               /\ IsOp(k - 1, "getsize", log[k].fn) /\ log[k - 1].arg = 2
               /\ log[k - 2].res = log[k - 1].res
               /\ log[k - 1].res >= 0

\* a cycle ended in which a file grew between its two probes
C4_Witness ==
    /\ CycleEnd
    /\ \E k \in Idx : /\ ProbeFailed(k) /\ log[k].arg = 2
                      /\ log[k].res > log[k - 1].res /\ log[k - 1].res >= 0

(* ---------------- C5 ---------------- *)

\* C5: archiving never overwrites an entry of the Archive Subdirectory: the
\* number of its entries equals the number of successful renames into it.
C5_NeverOverwrites == Cardinality(archive) = renamed

(* ---------------- C6 ---------------- *)

\* C6: after a rename that failed (the POST having been answered 2xx) the
\* path is added to the seen set, as the next step of the loop; and no POST is
\* made in a run for a path already acknowledged in that run.
C6_SeenAfterFailedRename ==
    /\ [](\A k \in Idx :
            (log[k].op = "rename" /\ ~ log[k].res) =>
                \/ Full(log[k].fn) \in seen
                \/ pc = "mark" /\ Cur = log[k].fn)
    /\ [][ (Logs /\ New.op = "post") => Full(New.fn) \notin acked ]_vars

\* a later cycle listed a delivered file that no rename ever archived, and
\* went past it without touching it
C6_Witness ==
    /\ CycleEnd
    /\ renamed = 0
    /\ \E k \in 1..Len(files) :
        /\ Full(files[k]) \in acked \cap seen
        /\ CanRead(files[k])
        /\ \A j \in Idx : log[j].fn # files[k]

(* ---------------- C7 ---------------- *)

\* C7: a failed read puts the path into the seen set in the same step, leaves
\* the Watch Root and the archive as they are and moves the loop on to the next
\* candidate; nothing more is done with that path in the run.
C7_UnreadableSkipped ==
    /\ [](/\ unreadable \subseteq seen
          /\ \A k \in Idx : ReadFailed(k) =>
                \A j \in (k + 1)..Len(log) : log[j].fn # log[k].fn)
    /\ [][ Logs =>
            /\ Full(New.fn) \notin unreadable
            /\ (New.op = "read" /\ ~ New.res) =>
                  /\ root' = root /\ archive' = archive
                  /\ pc' = "loop" /\ i' = i + 1 /\ files' = files ]_vars

\* a later cycle listed a file that could not be read, still in place, went
\* past it and handled another candidate
C7_Witness ==
    /\ CycleEnd
    /\ \E k \in 1..Len(files) :
        /\ Full(files[k]) \in unreadable
        /\ root[files[k]] # Absent /\ ~ root[files[k]].readable
        /\ \A j \in Idx : log[j].fn # files[k]
    /\ \E j \in Idx : log[j].op = "post"

(* ---------------- C8 ---------------- *)

\* C8: no failure of the directory listing, of a probe, of a read, of the
\* POST or of the rename ends the watcher: it never terminates by an error.
C8_NoErrorTerminates == pc # "crashed"

(* ---------------- C9 ---------------- *)

\* C9: when an acknowledged file is to be archived and the Archive
\* Subdirectory does not exist, it is created and the file is archived: a
\* rename of a file that is there never fails for want of the subdirectory.
C9_ArchiveDirOnDemand ==
    \A k \in Idx :
        (log[k].op = "rename" /\ log[k].arg.src /\ ~ log[k].arg.dir) => log[k].res

(* ---------------- C10 ---------------- *)

\* C10: with no external operation, at the end of the poll cycle every file
\* that was acknowledged and renamed is gone from the Watch Root, was POSTed
\* once, and has its own new archive entry <meeting_id>.<timestamp>.txt
\* holding its content.
C10_EndToEndSuccess ==
    (CycleEnd /\ envLeft = MaxEnv) =>
        \A k \in Idx : Renamed(k) =>
            /\ root[log[k].fn] = Absent
            /\ Cardinality({ j \in Idx : IsOp(j, "post", log[k].fn) }) = 1
            /\ \E t \in 0..MaxTime : log[k].arg.dest = Dest(log[k].fn, t)
            /\ ~ log[k].arg.clash
            /\ \E e \in archive :
                  e.name = log[k].arg.dest /\ e.data = log[k].arg.data
            /\ \A j \in Idx \ {k} :
                  Renamed(j) => log[j].arg.dest # log[k].arg.dest

\* the file has been in the Watch Root, untouched from outside, for n listings
\* of this run, and no POST of its path was answered 2xx, nor a read failed
FailingFor(fn, n) ==
    /\ tally[fn].age = n
    /\ CanRead(fn)
    /\ Full(fn) \notin acked \cup unreadable

\* C11: a stable, readable, unchanged file whose every POST is answered with a
\* status outside [200,300) has, when the n-th poll cycle since it appeared
\* ends, been POSTed exactly n times, once in this cycle and with the payload
\* its content gives every time; it is still in the Watch Root, nothing was
\* archived for it, and its path is not in seen.
C11_PersistentFailure ==
    CycleEnd => \A fn \in Names, n \in 1..(MaxTime + 1) : FailingFor(fn, n) =>
        /\ tally[fn].posts = n
        /\ Cardinality({ k \in Idx : IsOp(k, "post", fn) }) = 1
        /\ \A k \in Idx : IsOp(k, "post", fn) =>
               PostFailed(k) /\ log[k].arg = Payload(fn, root[fn].data)
        /\ lastFail[fn] = Payload(fn, root[fn].data)
        /\ \A k \in Idx : ~ IsOp(k, "rename", fn)
        /\ Full(fn) \notin seen

C11_Witness ==
    /\ CycleEnd
    /\ \E fn \in Names :
        /\ FailingFor(fn, 2)
        /\ tally[fn].posts = 2
        /\ \E k \in Idx : IsOp(k, "post", fn) /\ ~ log[k].res.raised

\* C12: the watcher never deletes a file and never changes a file's content:
\* a step of the watcher leaves the Watch Root and the archive as they are, or
\* it moves the candidate whose POST was answered 2xx into the archive, where
\* every entry there was stays and a new entry holds the candidate's content.
C12_NeverLosesAFile ==
    [][ envLeft' = envLeft =>
          \/ root' = root /\ archive' = archive
          \/ /\ pc = "rename"
             /\ Full(Cur) \in acked
             /\ root[Cur] # Absent
             /\ root' = [root EXCEPT ![Cur] = Absent]
             /\ archive \subseteq archive'
             /\ \E e \in archive' : e.data = root[Cur].data ]_vars

\* C13: a listing that finds the Watch Root missing recreates it and gives the
\* poll cycle an empty candidate sequence, with seen unchanged and the loop
\* going on; a cycle with an empty candidate sequence makes no probe, read,
\* POST or rename.
C13_MissingRootRecreated ==
    /\ [][ (pc = "list" /\ rootState = "missing" /\ pc' # "stopped") =>
              /\ rootState' = "ok"
              /\ files' = << >>
              /\ seen' = seen
              /\ pc' = "loop" ]_vars
    /\ []((Running /\ files = << >>) =>
              log = << >> /\ pc \in {"list", "loop", "sleep"})

\* the cycle after the recreation has POSTed a file dropped since
C13_Witness ==
    /\ rootState = "ok"
    /\ ~ archDir
    /\ \E k \in Idx : log[k].op = "post"

\* entry k of the history is the last operation on its candidate
Outcome(k) ==
    \/ ProbeFailed(k)
    \/ ReadFailed(k)
    \/ PostFailed(k)
    \/ log[k].op = "rename"

\* the candidates are handled one at a time, in lexicographic order of file
\* name, each through probe, probe, read, POST, rename as far as it gets
InOrder ==
    /\ \A a \in 2..Len(files) : StrLess(files[a - 1], files[a])
    /\ \A k \in Idx : \E m \in 1..Len(files) :
           /\ log[k].fn = files[m]
           /\ m <= i
           /\ m = i => pc # "loop"
    /\ \A k \in 2..Len(log) :
           log[k - 1].fn = log[k].fn \/ StrLess(log[k - 1].fn, log[k].fn)
    /\ \A k \in Idx :
           /\ (log[k].op = "getsize" /\ log[k].arg = 1) =>
                  k = 1 \/ (log[k - 1].fn # log[k].fn /\ Outcome(k - 1))
           /\ (log[k].op = "getsize" /\ log[k].arg = 2) =>
                  /\ IsOp(k - 1, "getsize", log[k].fn)
                  /\ log[k - 1].arg = 1
           /\ log[k].op = "read" =>
                  /\ IsOp(k - 1, "getsize", log[k].fn)
                  /\ log[k - 1].arg = 2
           /\ log[k].op = "post" =>
                  IsOp(k - 1, "read", log[k].fn) /\ log[k - 1].res
           /\ log[k].op = "rename" =>
                  IsOp(k - 1, "post", log[k].fn) /\ Acked(k - 1)

\* the sleep is reached only when the for loop is exhausted, the next listing
\* only from the sleep
CycleByCycle ==
    /\ (pc # "sleep" /\ pc' = "sleep") => CycleEnd
    /\ (Running /\ pc # "list" /\ pc' = "list") => pc = "sleep"

\* C14 (as stated): every stability probe of the poll cycle comes before the
\* first read or POST of the cycle (the Detector runs to completion before any
\* delivery); the candidates are then handled one at a time in lexicographic
\* order, and the next listing comes after the last candidate's outcome.
C14_DetectorBeforeDelivery ==
    /\ [](\A k \in 2..Len(log) : log[k].op = "getsize" => log[k - 1].op = "getsize")
    /\ []InOrder
    /\ [][CycleByCycle]_vars

\* C14 (amended): within a poll cycle the candidates are handled one at a time
\* in lexicographic order of file name; the two probes of a candidate come
\* before its own read and POST, and a candidate has reached its outcome
\* before the next one is probed; the next listing comes after the last
\* candidate's outcome.
C14_OneCandidateAtATime == []InOrder /\ [][CycleByCycle]_vars

\* the second candidate is probed after the first one was POSTed
C14_Witness ==
    \E j, k \in Idx :
        /\ j < k
        /\ log[j].op = "post"
        /\ log[k].op = "getsize"
        /\ StrLess(log[j].fn, log[k].fn)

\* C15: every path in seen was, in this run, the path of a POST answered with
\* a status in [200,300) or of a read that failed; a path whose only outcomes
\* are failed probes, transport exceptions or other statuses is not in seen.
C15_SeenOnlyAckedOrUnreadable == \A p \in seen : p \in acked \/ p \in unreadable

\* seen holds the path of a failed read, not the path of a POST that raised
C15_Witness ==
    /\ CycleEnd
    /\ \E p \in seen : p \in unreadable \ acked
    /\ \E k \in Idx :
        /\ PostFailed(k)
        /\ log[k].res.raised
        /\ Full(log[k].fn) \notin seen

\* C16: the seen set is not persisted: a run starts with an empty seen set,
\* and its first poll cycle POSTs every file that is in the Watch Root, stable
\* and readable, also when the run before had its path in seen.
C16_SeenNotPersisted ==
    /\ [][ (~ Running /\ Running') => seen' = {} ]_vars
    /\ [](CycleEnd => \A fn \in Names :
              (Full(fn) \in prevSeen /\ tally[fn].age > 0 /\ CanRead(fn)) =>
                  \E k \in Idx : IsOp(k, "post", fn))

\* a file whose path the run before had in seen has been POSTed by the run
\* after the restart
C16_Witness ==
    \E fn \in Names :
        /\ Full(fn) \in prevSeen
        /\ \E k \in Idx : IsOp(k, "post", fn)

\* C17: an interrupt can arrive at every point of the loop; it is caught, so
\* the loop is left by a return (never by the exception), with the Watch
\* Root, the archive and seen as they were; after that the watcher makes no
\* listing, probe, read, POST or rename until it is started again.
C17_InterruptStops ==
    /\ [](Running => ENABLED Interrupt)
    /\ [][ (Running /\ ~ Running' /\ ~ (pc = "list" /\ rootState = "denied")) =>
              /\ pc' = "stopped"
              /\ UNCHANGED <<seen, root, archive>> ]_vars
    /\ [][ (pc = "stopped" /\ pc' = "stopped") =>
              /\ envLeft' < envLeft
              /\ UNCHANGED <<prog, log, acked>> ]_vars

\* interrupted after the 2xx response and before the rename: the file is in
\* the Watch Root, nothing is archived, its path is not in seen
C17_Witness ==
    /\ pc = "stopped"
    /\ envLeft = MaxEnv
    /\ archive = {}
    /\ \E fn \in Names : Full(fn) \in acked \ seen /\ root[fn] # Absent

\* C18: within one run no path gets a second POST answered with a status in
\* [200,300): a path so answered is in seen once its candidate has been
\* handled (the loop being between the response and seen.add, or stopped,
\* otherwise), whether its rename succeeded or failed.
C18_AtMostOneAck ==
    /\ [][ (Logs /\ New.op = "post" /\ Answered2xx(New.res)) =>
              Full(New.fn) \notin acked ]_vars
    /\ [](\A p \in acked :
              \/ p \in seen
              \/ pc \in {"rename", "mark"} /\ Full(Cur) = p
              \/ ~ Running)

\* one acknowledged path whose rename failed and one whose rename succeeded,
\* both in seen
C18_Witness ==
    /\ CycleEnd
    /\ \E j, k \in Idx :
        /\ log[j].op = "rename" /\ ~ log[j].res
        /\ Renamed(k)
        /\ {Full(log[j].fn), Full(log[k].fn)} \subseteq acked \cap seen

\* C19: with a producer writing while the watcher handles the file, the
\* content of every archived copy is the transcript of the POST that was
\* answered 2xx for it.
C19_ArchivedIsWhatWasPosted ==
    \A k \in Idx : Renamed(k) =>
        /\ IsOp(k - 1, "post", log[k].fn)
        /\ log[k].arg.data = log[k - 1].arg.transcript

\* from this step on the endpoint answers a POST with a status in [200,300)
EndpointUp == (Logs /\ New.op = "post") => Answered2xx(New.res)

\* C20: with the loop running for ever, a file that is in the Watch Root,
\* untouched and readable, its path not in seen, is POSTed in every poll
\* cycle; and if from some point on the endpoint answers every POST with a
\* status in [200,300), then in the end every readable file that stays in the
\* Watch Root, no read of its path having failed, has been acknowledged and
\* its path is in seen (the others have been archived).
C20_EventualDelivery ==
    /\ [](CycleEnd => \A fn \in Names :
              (tally[fn].age > 0 /\ CanRead(fn) /\ Full(fn) \notin seen) =>
                  \E k \in Idx : IsOp(k, "post", fn))
    /\ (<>[][EndpointUp]_vars) =>
           <>[](\A fn \in Names :
                    (CanRead(fn) /\ Full(fn) \notin unreadable) =>
                        Full(fn) \in acked \cap seen)
====
